---- MODULE Spec2Model ----
(***************************************************************************)
(* Model of the schema migration engine (bin/database.py) and of the       *)
(* reaper ingestion path (api/dao/reaperutil.py, api/dao/containerutil.py) *)
(* over one shared document store.                                         *)
(*                                                                         *)
(* A document is a record whose DOMAIN is the set of fields it has; a      *)
(* collection is the sequence of its documents in natural (insertion)      *)
(* order; the store `db` is a record of collections.                       *)
(***************************************************************************)
EXTENDS Integers, Sequences, FiniteSets, TLC

VARIABLES
    db,          \* config.db: the collections of the store
    nextId,      \* the next value bson.ObjectId() hands out
    now,         \* the clock read by datetime.datetime.utcnow()
    op,          \* the handler that ran last
    arg,         \* its input
    db_version,  \* what get_db_version() returned to it (database.py:36, :281)
    calls,       \* the upgrade_to_N routines the last upgrade_schema() entered, in order
    ret,         \* its exit code (sys.exit); for a call, 0 = returned, 1 = raised
    repeated,    \* the handler that ran last ran right before, on the same input
    carried,     \* what the create_container_hierarchy calls that returned carried
    proc         \* the position and the locals of each caller that runs step by step

vars == <<db, nextId, now, op, arg, db_version, calls, ret, repeated, carried, proc>>

-----------------------------------------------------------------------------
(* Bounds of the model *)

\* Largest integer schema version a stored marker is drawn from.
MaxVersion == 9

\* Number of create_container_hierarchy calls in a behaviour.
MaxCalls == 2

-----------------------------------------------------------------------------
(* Documents *)

Has(d, f) == f \in DOMAIN d

SetField(d, f, v) == [k \in DOMAIN d \cup {f} |-> IF k = f THEN v ELSE d[k]]

UnsetField(d, f) == [k \in DOMAIN d \ {f} |-> d[k]]

\* $set of every field of `fields` on d
SetAll(d, fields) ==
    [k \in DOMAIN d \cup DOMAIN fields |-> IF k \in DOMAIN fields THEN fields[k] ELSE d[k]]

\* $rename: a missing source field is left alone
RenameField(d, old, new) ==
    IF Has(d, old) THEN SetField(UnsetField(d, old), new, d[old]) ELSE d

\* dict.pop(f, None)
Pop(d, f) == IF Has(d, f) THEN UnsetField(d, f) ELSE d

\* indexes of the documents of collection c that satisfy Q, in natural order
RECURSIVE SelectFrom(_, _, _)
SelectFrom(c, Q(_), i) ==
    IF i > Len(c) THEN <<>>
    ELSE (IF Q(c[i]) THEN <<i>> ELSE <<>>) \o SelectFrom(c, Q, i + 1)

Find(c, Q(_)) == SelectFrom(c, Q, 1)

Range(s) == {s[i] : i \in DOMAIN s}

\* group ids and labels are strings, kept as their sequences of characters
LabA == <<"l", "a", "b", "A">>
LabB == <<"l", "a", "b", "B">>
\* the group that takes what matches no group or several (reaperutil.py:53)
Unknown == <<"u", "n", "k", "n", "o", "w", "n">>

\* A value stored in version.database: an int, a non-int (a string) or null.
IntV(n) == [t |-> "int", v |-> n]
StrV == [t |-> "str", v |-> 0]
NullV == [t |-> "null", v |-> 0]

\* Python 2 `a < k` for an int k: ints compare by value, a str is never
\* smaller than an int.
PyLess(a, k) == a.t = "int" /\ a.v < k

\* Python 2 `a > k` for an int k: a str is greater than every int.
PyGreater(a, k) == IF a.t = "int" THEN a.v > k ELSE a.t = "str"

-----------------------------------------------------------------------------
(* bin/database.py *)

CURRENT_DATABASE_VERSION == 7

\* api.config.get_version(): the singleton document of the version collection
get_version(d) ==
    LET hit == Find(d.version, LAMBDA x : x._id = "version")
    IN  IF hit = <<>> THEN <<>> ELSE <<d.version[hit[1]]>>

get_db_version(d) ==
    LET version == get_version(d)
    IN  IF version = <<>> \/ ~Has(version[1], "database") \/ version[1].database = NullV
        THEN IntV(0)
        ELSE version[1].database

\* confirm_schema_match with `<=` for `<` in the second test
confirm_schema_match_le(v) ==
    IF v.t # "int" \/ PyGreater(v, CURRENT_DATABASE_VERSION) THEN 43
    ELSE IF PyLess(v, CURRENT_DATABASE_VERSION + 1) THEN 42
    ELSE 0

\* the exit code of confirm_schema_match() when get_db_version() returned v
confirm_schema_match(v) ==
    IF v.t # "int" \/ PyGreater(v, CURRENT_DATABASE_VERSION) THEN 43
    ELSE IF PyLess(v, CURRENT_DATABASE_VERSION) THEN 42
    ELSE 0

\* A migration routine maps a store state s = [db, nextId] to
\* [db, nextId, ok]; ok = FALSE when it raised, db then holding the writes
\* it made before raising.
Done(d, n) == [db |-> d, nextId |-> n, ok |-> TRUE]
Raised(d, n) == [db |-> d, nextId |-> n, ok |-> FALSE]

\* insert_one raises DuplicateKeyError when the _id is taken
upgrade_to_1(s) ==
    IF \E i \in DOMAIN s.db.version : s.db.version[i]._id = "version"
    THEN Raised(s.db, s.nextId)
    ELSE Done([s.db EXCEPT !.version = Append(@, [_id |-> "version", database |-> IntV(1)])],
              s.nextId)

\* The documents of collection c that satisfy Q are visited in natural order
\* (a cursor loop); Fails(d) is the loop body raising on d, U(d) the document
\* its update_one leaves.  [c, ok]: ok = FALSE when the body raised, c then
\* holding the updates made before.
RECURSIVE UpdateEach(_, _, _, _, _)
UpdateEach(c, Q(_), Fails(_), U(_), i) ==
    IF i > Len(c) THEN [c |-> c, ok |-> TRUE]
    ELSE IF ~Q(c[i]) THEN UpdateEach(c, Q, Fails, U, i + 1)
    ELSE IF Fails(c[i]) THEN [c |-> c, ok |-> FALSE]
    ELSE UpdateEach([c EXCEPT ![i] = U(@)], Q, Fails, U, i + 1)

MapSeq(s, F(_)) == [i \in DOMAIN s |-> F(s[i])]

\* origin['id'] raises KeyError when a file has an origin with neither name nor id
origin_raises(file) ==
    Has(file, "origin") /\ ~Has(file.origin, "name") /\ ~Has(file.origin, "id")

update_file_origin(file) ==
    IF ~Has(file, "origin") THEN file
    ELSE LET o1 == IF Has(file.origin, "name") THEN file.origin
                   ELSE SetField(file.origin, "name", file.origin.id)
             o2 == IF Has(o1, "method") THEN o1 ELSE SetField(o1, "method", "")
         IN  SetField(file, "origin", o2)

\* {'files.origin.name': {$exists: False}} and {'files.origin.id': {$exists: True}}
\* over the array `files`: no element has origin.name, some element has origin.id
origin_query(d) ==
    /\ Has(d, "files")
    /\ \A i \in DOMAIN d.files : ~(Has(d.files[i], "origin") /\ Has(d.files[i].origin, "name"))
    /\ \E i \in DOMAIN d.files : Has(d.files[i], "origin") /\ Has(d.files[i].origin, "id")

update_file_origins(c) ==
    UpdateEach(c, origin_query,
               LAMBDA d : \E i \in DOMAIN d.files : origin_raises(d.files[i]),
               LAMBDA d : SetField(d, "files", MapSeq(d.files, update_file_origin)),
               1)

\* collection `name` of store state s replaced by the outcome r = [c, ok] of a loop
put_collection(s, name, r) ==
    [db |-> [s.db EXCEPT ![name] = r.c], nextId |-> s.nextId, ok |-> r.ok]

\* update_file_origins(config.db[name].find(query), name), skipped when an
\* earlier call raised
origins_in(s, name) ==
    IF ~s.ok THEN s ELSE put_collection(s, name, update_file_origins(s.db[name]))

upgrade_to_2(s) ==
    origins_in(origins_in(origins_in(origins_in(Done(s.db, s.nextId),
        "collections"), "projects"), "sessions"), "acquisitions")

IsAdmin(p) == p.access = "admin"

upgrade_to_3(s) ==
    put_collection(s, "collections",
        UpdateEach(s.db.collections,
                   LAMBDA d : /\ ~Has(d, "curator")
                              /\ Has(d, "permissions")
                              /\ \E i \in DOMAIN d.permissions : IsAdmin(d.permissions[i]),
                   LAMBDA d : FALSE,
                   LAMBDA d : SetField(d, "curator",
                                  d.permissions[Find(d.permissions, IsAdmin)[1]]._id),
                   1))

HasSubjectId(d) == Has(d, "subject") /\ Has(d.subject, "_id")

HasSubjectCode(d) == Has(d, "subject") /\ Has(d.subject, "code")

\* the $group key {pid: '$project', code: '$subject.code'}; stored ids are
\* positive, 0 stands for a session without a project
subject_group(d) ==
    [pid |-> IF Has(d, "project") THEN d.project ELSE 0,
     coded |-> HasSubjectCode(d),
     code |-> IF HasSubjectCode(d) THEN d.subject.code ELSE ""]

\* {'$set': {'subject._id': id}}
set_subject_id(d, id) ==
    SetField(d, "subject", SetField(IF Has(d, "subject") THEN d.subject ELSE <<>>, "_id", id))

\* One fresh id per group of sessions lacking subject._id that share project
\* and code, one fresh id per session of a group without a code.  `given`
\* maps the groups met so far to their id.
RECURSIVE assign_subject_ids(_, _, _, _)
assign_subject_ids(c, given, n, i) ==
    IF i > Len(c) THEN [c |-> c, nextId |-> n]
    ELSE IF HasSubjectId(c[i]) THEN assign_subject_ids(c, given, n, i + 1)
    ELSE IF subject_group(c[i]).coded /\ subject_group(c[i]) \in DOMAIN given
         THEN assign_subject_ids([c EXCEPT ![i] = set_subject_id(@, given[subject_group(@)])],
                                 given, n, i + 1)
         ELSE assign_subject_ids([c EXCEPT ![i] = set_subject_id(@, n)],
                                 IF subject_group(c[i]).coded
                                 THEN (subject_group(c[i]) :> n) @@ given
                                 ELSE given,
                                 n + 1, i + 1)

\* the sessions of store state s replaced by r = [c, nextId]
put_sessions(s, r) == Done([s.db EXCEPT !.sessions = r.c], r.nextId)

upgrade_to_4(s) == put_sessions(s, assign_subject_ids(s.db.sessions, <<>>, s.nextId, 1))

\* update_many(Q, {'$set': {'permissions': perms}})
set_permissions(c, Q(_), perms) ==
    [i \in DOMAIN c |-> IF Q(c[i]) THEN SetField(c[i], "permissions", perms) ELSE c[i]]

RECURSIVE sync_permissions(_, _)
sync_permissions(d, i) ==
    IF i > Len(d.projects) THEN d
    ELSE LET p == d.projects[i]
             perms == IF Has(p, "permissions") THEN p.permissions ELSE <<>>
             InProject(x) == Has(x, "project") /\ x.project = p._id
             session_ids == {d.sessions[k]._id : k \in Range(Find(d.sessions, InProject))}
         IN  sync_permissions(
                 [d EXCEPT !.sessions = set_permissions(@, InProject, perms),
                           !.acquisitions = set_permissions(@,
                               LAMBDA x : Has(x, "session") /\ x.session \in session_ids,
                               perms)],
                 i + 1)

upgrade_to_5(s) == Done(sync_permissions(s.db, 1), s.nextId)

\* A `modified` value: a BSON string (type 2) or a date.  v = 0 in a string
\* stands for text dateutil.parser.parse rejects with ValueError.
StrDate(v) == [t |-> "string", v |-> v]
Date(v) == [t |-> "date", v |-> v]

upgrade_to_6(s) ==
    put_collection(s, "collections",
        UpdateEach(s.db.collections,
                   LAMBDA d : Has(d, "modified") /\ d.modified.t = "string",
                   LAMBDA d : d.modified.v = 0,
                   LAMBDA d : SetField(d, "modified", Date(d.modified.v)),
                   1))

input_name_for_gear ==
    ("dcm_convert" :> "dicom") @@ ("qa-report-fmri" :> "nifti")
        @@ ("dicom_mr_classifier" :> "dicom")

upgrade_job(job) ==
    LET input == Pop(job.input, "filehash")
        inputs == [k \in {input_name_for_gear[job.algorithm_id]} |-> input]
        destination == Pop(input, "filename")
    IN  UnsetField(SetField(SetField(job, "inputs", inputs), "destination", destination),
                   "input")

\* job['algorithm_id'], input_name_for_gear[gear_name] and job['input'] raise
\* KeyError when the key is missing
job_raises(job) ==
    \/ ~Has(job, "algorithm_id")
    \/ job.algorithm_id \notin DOMAIN input_name_for_gear
    \/ ~Has(job, "input")

upgrade_to_7(s) ==
    put_collection(s, "jobs",
        UpdateEach(s.db.jobs, LAMBDA d : TRUE, job_raises, upgrade_job, 1))

dm_v2_file(file) ==
    RenameField(RenameField(file, "metadata", "info"), "instrument", "modality")

dm_v2_update(cont_name, d) ==
    LET d1 == RenameField(d, "metadata", "info")
        d2 == IF cont_name = "sessions" /\ Has(d1, "subject")
              THEN SetField(d1, "subject", RenameField(d1.subject, "metadata", "info"))
              ELSE d1
        d3 == IF cont_name = "acquisitions"
              THEN Pop(Pop(d2, "instrument"), "measurements")
              ELSE d2
    IN  IF Has(d3, "files") THEN SetField(d3, "files", MapSeq(d3.files, dm_v2_file))
        ELSE d3

dm_v2_query(cont_name, d) ==
    \/ Has(d, "files")
    \/ Has(d, "subject")
    \/ Has(d, "metadata")
    \/ cont_name = "acquisitions" /\ (Has(d, "instrument") \/ Has(d, "measurement"))

dm_v2_updates(cont_name, c) ==
    UpdateEach(c, LAMBDA d : dm_v2_query(cont_name, d), LAMBDA d : FALSE,
               LAMBDA d : dm_v2_update(cont_name, d), 1)

\* dm_v2_updates(config.db[name].find(query), name); nothing in it raises on
\* a document
dm_v2_in(s, name) == put_collection(s, name, dm_v2_updates(name, s.db[name]))

upgrade_to_8(s) ==
    dm_v2_in(dm_v2_in(dm_v2_in(dm_v2_in(Done(s.db, s.nextId),
        "collections"), "projects"), "sessions"), "acquisitions")

\* the last routine of the if-chain of upgrade_schema()
LAST_UPGRADE == 8

upgrade_to(n, s) ==
    CASE n = 1 -> upgrade_to_1(s)
      [] n = 2 -> upgrade_to_2(s)
      [] n = 3 -> upgrade_to_3(s)
      [] n = 4 -> upgrade_to_4(s)
      [] n = 5 -> upgrade_to_5(s)
      [] n = 6 -> upgrade_to_6(s)
      [] n = 7 -> upgrade_to_7(s)
      [] n = 8 -> upgrade_to_8(s)

\* The try block: `if db_version < n: upgrade_to_n()` for n = 1 .. 8.  s is
\* the store state [db, nextId, ok] before routine n, v what get_db_version()
\* returned, fault the routine in which the store itself fails (a driver
\* error raised by its first access; 0 for none), log the routines entered.
RECURSIVE upgrade_chain(_, _, _, _, _)
upgrade_chain(s, v, fault, n, log) ==
    IF ~s.ok \/ n > LAST_UPGRADE
    THEN [db |-> s.db, nextId |-> s.nextId, ok |-> s.ok, calls |-> log]
    ELSE IF ~PyLess(v, n) THEN upgrade_chain(s, v, fault, n + 1, log)
    ELSE upgrade_chain(IF fault = n THEN Raised(s.db, s.nextId) ELSE upgrade_to(n, s),
                       v, fault, n + 1, Append(log, n))

\* version.update_one({'_id': 'version'}, {'$set': {'database': n}})
set_version(d, n) ==
    [d EXCEPT !.version =
        [i \in DOMAIN @ |-> IF i = Find(@, LAMBDA x : x._id = "version")[1]
                            THEN SetField(@[i], "database", IntV(n))
                            ELSE @[i]]]

\* upgrade_exit setting the marker in a `finally` instead of the `else`
upgrade_exit_finally(r) ==
    [db |-> set_version(r.db, CURRENT_DATABASE_VERSION), nextId |-> r.nextId,
     calls |-> r.calls, code |-> IF r.ok THEN 0 ELSE 1]

\* except: sys.exit(1); else: set the marker, sys.exit(0)
upgrade_exit(r) ==
    IF r.ok
    THEN [db |-> set_version(r.db, CURRENT_DATABASE_VERSION), nextId |-> r.nextId,
          calls |-> r.calls, code |-> 0]
    ELSE [db |-> r.db, nextId |-> r.nextId, calls |-> r.calls, code |-> 1]

\* upgrade_schema() on store state s = [db, nextId], get_db_version() having
\* returned v: [db, nextId, calls, code], code the exit code
upgrade_schema(s, v, fault) ==
    upgrade_exit(upgrade_chain(Done(s.db, s.nextId), v, fault, 1, <<>>))

-----------------------------------------------------------------------------
(* difflib, as api/dao/reaperutil.py uses it *)

\* the length of the common run a[i+1 ..], b[j+1 ..] inside a[.. ahi], b[.. bhi]
RECURSIVE common_run(_, _, _, _, _, _)
common_run(a, i, ahi, b, j, bhi) ==
    IF i >= ahi \/ j >= bhi \/ a[i + 1] # b[j + 1] THEN 0
    ELSE 1 + common_run(a, i + 1, ahi, b, j + 1, bhi)

\* SequenceMatcher.find_longest_match(alo, ahi, blo, bhi) without junk: the
\* longest block a[i:i+k] = b[j:j+k], of those the one starting earliest in
\* a, of those the one starting earliest in b (0-based i, j)
find_longest_match(a, alo, ahi, b, blo, bhi) ==
    LET blocks == {[i |-> i, j |-> j, k |-> common_run(a, i, ahi, b, j, bhi)] :
                      i \in alo .. ahi - 1, j \in blo .. bhi - 1}
    IN  CHOOSE m \in blocks :
            \A x \in blocks :
                \/ m.k > x.k
                \/ m.k = x.k /\ m.i < x.i
                \/ m.k = x.k /\ m.i = x.i /\ m.j <= x.j

\* the total size of SequenceMatcher.get_matching_blocks(): the longest
\* block, then the same to its left and to its right
RECURSIVE matches_in(_, _, _, _, _, _)
RECURSIVE matches_around(_, _, _, _, _, _, _)
matches_around(m, a, alo, ahi, b, blo, bhi) ==
    IF m.k = 0 THEN 0
    ELSE m.k + matches_in(a, alo, m.i, b, blo, m.j)
             + matches_in(a, m.i + m.k, ahi, b, m.j + m.k, bhi)

matches_in(a, alo, ahi, b, blo, bhi) ==
    IF alo >= ahi \/ blo >= bhi THEN 0
    ELSE matches_around(find_longest_match(a, alo, ahi, b, blo, bhi), a, alo, ahi, b, blo, bhi)

\* SequenceMatcher(None, a, b).ratio() >= 0.8, ratio = 2.0 * matches / (len(a) + len(b))
\* and 1.0 for two empty strings
ratio_passes(a, b) ==
    \/ Len(a) + Len(b) = 0
    \/ 10 * matches_in(a, 0, Len(a), b, 0, Len(b)) >= 4 * (Len(a) + Len(b))

\* difflib.get_close_matches(word, possibilities, cutoff=0.8): the
\* possibilities x with SequenceMatcher(a=x, b=word).ratio() >= cutoff (the
\* best three of them; three or more all differ from "exactly one")
get_close_matches(word, possibilities) ==
    Find(possibilities, LAMBDA x : ratio_passes(x, word))

-----------------------------------------------------------------------------
(* api/dao/reaperutil.py *)

\* find_one(Q): the index of the first document satisfying Q, 0 for None
find_one(c, Q(_)) == IF Find(c, Q) = <<>> THEN 0 ELSE Find(c, Q)[1]

\* upsert as an insert_one: a document is added whether or not one matches
upsert_inserts(c, i, key, id, onInsert, set) ==
    Append(c, SetAll(SetAll(SetField(key, "_id", id), onInsert), set))

\* upsert with the $setOnInsert fields under $set: written on every call
upsert_sets_all(c, i, key, id, onInsert, set) ==
    IF i = 0 THEN Append(c, SetAll(SetAll(SetField(key, "_id", id), onInsert), set))
    ELSE [c EXCEPT ![i] = SetAll(SetAll(@, onInsert), set)]

\* find_one_and_update(query, {'$setOnInsert': onInsert, '$set': set},
\* upsert=True) where i = find_one(query) and key holds the query's equality
\* fields: the matched document gets `set`; without a match a document is
\* inserted with a fresh _id, the key, onInsert and set
upsert(c, i, key, id, onInsert, set) ==
    IF i = 0 THEN Append(c, SetAll(SetAll(SetField(key, "_id", id), onInsert), set))
    ELSE [c EXCEPT ![i] = SetAll(@, set)]

\* an update naming one path under both operators is refused by the store
\* (ConflictingUpdateOperators)
update_conflicts(onInsert, set) == DOMAIN onInsert \cap DOMAIN set # {}

\* dateutil.parser.parse of a timestamp string; StrDate(0) is rejected
parse_raises(x) == x.v = 0
parse(x) == Date(x.v)

\* min_timestamp with $set for $min
min_timestamp_set(d, x) == SetField(d, "timestamp", x)

\* {'$min': {'timestamp': x}} and {'$max': {'timestamp': x}}
min_timestamp(d, x) ==
    IF Has(d, "timestamp") /\ d.timestamp.v <= x.v THEN d ELSE SetField(d, "timestamp", x)

max_timestamp(d, x) ==
    IF Has(d, "timestamp") /\ d.timestamp.v >= x.v THEN d ELSE SetField(d, "timestamp", x)

\* dict.get(f): Python's None is kept as the string "None"
GetOrNone(d, f) == IF Has(d, f) THEN d[f] ELSE "None"

existing_group_ids(d) == [i \in DOMAIN d.groups |-> d.groups[i]._id]

\* destination taking the first close match when there are several
destination_first_match(group_id_matches, ids, group_name, project_label) ==
    IF Len(group_id_matches) >= 1
    THEN [group_name |-> ids[group_id_matches[1]], project_label |-> project_label]
    ELSE [group_name |-> Unknown, project_label |-> group_name \o <<"_">> \o project_label]

\* the group and label the project is looked up under, given the close matches
destination(group_id_matches, ids, group_name, project_label) ==
    IF Len(group_id_matches) = 1
    THEN [group_name |-> ids[group_id_matches[1]], project_label |-> project_label]
    ELSE [group_name |-> Unknown, project_label |-> group_name \o <<"_">> \o project_label]

\* lines 54-66: g = find_one({'_id': group_name}) on groups, i = the index of
\* the project {'group': .., 'label': ..}; group['_id'] raises when g is None
upsert_project(s, dest, g, i, created, modified) ==
    IF g = 0 THEN [db |-> s.db, nextId |-> s.nextId, ok |-> FALSE, project |-> 0]
    ELSE [db |-> [s.db EXCEPT !.projects =
                     upsert(@, i, [group |-> dest.group_name, label |-> dest.project_label],
                            s.nextId,
                            [permissions |-> s.db.groups[g].roles, public |-> FALSE,
                             created |-> created, modified |-> modified],
                            <<>>)],
          nextId |-> IF i = 0 THEN s.nextId + 1 ELSE s.nextId,
          ok |-> TRUE,
          project |-> IF i = 0 THEN Len(s.db.projects) + 1 ELSE i]

find_or_create_in(s, dest, created, modified) ==
    upsert_project(s, dest,
        find_one(s.db.groups, LAMBDA x : x._id = dest.group_name),
        find_one(s.db.projects,
                 LAMBDA x : x.group = dest.group_name /\ x.label = dest.project_label),
        created, modified)

\* [db, nextId, ok, project]: project the index of the returned document
_find_or_create_destination_project(s, group_name, project_label, created, modified) ==
    find_or_create_in(s,
        destination(get_close_matches(group_name, existing_group_ids(s.db)),
                    existing_group_ids(s.db), group_name, project_label),
        created, modified)

\* lines 82-89: the four required keys
metadata_valid(metadata) ==
    /\ Has(metadata, "group") /\ Has(metadata.group, "_id")
    /\ Has(metadata, "project") /\ Has(metadata.project, "label")
    /\ Has(metadata, "session") /\ Has(metadata.session, "uid")
    /\ Has(metadata, "acquisition") /\ Has(metadata.acquisition, "uid")

\* project_of resolving the incoming group and label whether or not the
\* session is stored
project_of_resolves(s, metadata, t, session_obj) ==
    _find_or_create_destination_project(s, metadata.group._id, metadata.project.label, t, t)

\* lines 96-100, session_obj being the index of find_one({'uid': session_uid}):
\* the project of the stored session, else the destination project
project_of(s, metadata, t, session_obj) ==
    IF session_obj # 0
    THEN [db |-> s.db, nextId |-> s.nextId,
          ok |-> find_one(s.db.projects,
                          LAMBDA x : x._id = s.db.sessions[session_obj].project) # 0,
          project |-> find_one(s.db.projects,
                               LAMBDA x : x._id = s.db.sessions[session_obj].project)]
    ELSE _find_or_create_destination_project(s, metadata.group._id, metadata.project.label,
                                             t, t)

\* lines 101-105: the session dict that is $set
session_fields(metadata, t) ==
    SetAll(IF Has(metadata.session, "timestamp")
           THEN SetField(metadata.session, "timestamp", parse(metadata.session.timestamp))
           ELSE metadata.session,
           [subject |-> IF Has(metadata, "subject") THEN metadata.subject ELSE <<>>,
            modified |-> t])

session_on_insert(project_obj, t) ==
    [group |-> project_obj.group, project |-> project_obj._id,
     permissions |-> project_obj.permissions, public |-> project_obj.public,
     created |-> t]

\* lines 101-121 after r = [db, nextId, ok, project]; adds `session`, the
\* index of the returned document
upsert_session(r, metadata, t, i) ==
    IF \/ ~r.ok
       \/ Has(metadata.session, "timestamp") /\ parse_raises(metadata.session.timestamp)
       \/ update_conflicts(session_on_insert(r.db.projects[r.project], t),
                           session_fields(metadata, t))
    THEN [db |-> r.db, nextId |-> r.nextId, ok |-> FALSE, project |-> r.project,
          session |-> 0]
    ELSE [db |-> [r.db EXCEPT !.sessions =
                     upsert(@, i, [uid |-> metadata.session.uid], r.nextId,
                            session_on_insert(r.db.projects[r.project], t),
                            session_fields(metadata, t))],
          nextId |-> IF i = 0 THEN r.nextId + 1 ELSE r.nextId,
          ok |-> TRUE,
          project |-> r.project,
          session |-> IF i = 0 THEN Len(r.db.sessions) + 1 ELSE i]

store_session(r, metadata, t) ==
    upsert_session(r, metadata, t,
                   find_one(r.db.sessions, LAMBDA x : x.uid = metadata.session.uid))

\* line 127: projects.update_one({'_id': project_obj['_id']}, {'$max': .., '$set': ..})
max_project_timestamp(r, metadata) ==
    IF ~r.ok \/ ~Has(metadata.acquisition, "timestamp") THEN r
    ELSE IF parse_raises(metadata.acquisition.timestamp) THEN [r EXCEPT !.ok = FALSE]
    ELSE [r EXCEPT
            !.db.projects[r.project] =
                SetField(max_timestamp(@, parse(metadata.acquisition.timestamp)),
                         "timezone", GetOrNone(metadata.acquisition, "timezone"))]

\* line 128: sessions.update_one({'_id': session_obj['_id']}, {'$min': .., '$set': ..})
min_session_timestamp(r, metadata) ==
    IF ~r.ok \/ ~Has(metadata.acquisition, "timestamp") THEN r
    ELSE [r EXCEPT
            !.db.sessions[r.session] =
                SetField(min_timestamp(@, parse(metadata.acquisition.timestamp)),
                         "timezone", GetOrNone(metadata.acquisition, "timezone"))]

\* lines 125-128
store_timestamps(r, metadata) ==
    min_session_timestamp(max_project_timestamp(r, metadata), metadata)

\* lines 125-126, 130: the acquisition dict that is $set
acquisition_fields(metadata, t) ==
    SetField(IF Has(metadata.acquisition, "timestamp")
             THEN SetField(metadata.acquisition, "timestamp",
                           parse(metadata.acquisition.timestamp))
             ELSE metadata.acquisition,
             "modified", t)

acquisition_on_insert(session_obj, t) ==
    [session |-> session_obj._id, permissions |-> session_obj.permissions,
     public |-> session_obj.public, created |-> t]

\* upsert_acquisition as an insert_one of the acquisition
upsert_acquisition_inserts(r, metadata, t, i) ==
    IF \/ ~r.ok
       \/ update_conflicts(acquisition_on_insert(r.db.sessions[r.session], t),
                           acquisition_fields(metadata, t))
    THEN Raised(r.db, r.nextId)
    ELSE Done([r.db EXCEPT !.acquisitions =
                  Append(@, SetAll(SetAll([uid |-> metadata.acquisition.uid,
                                           _id |-> r.nextId],
                                          acquisition_on_insert(r.db.sessions[r.session], t)),
                                   acquisition_fields(metadata, t)))],
              r.nextId + 1)

\* lines 130-147; [db, nextId, ok]
upsert_acquisition(r, metadata, t, i) ==
    IF \/ ~r.ok
       \/ update_conflicts(acquisition_on_insert(r.db.sessions[r.session], t),
                           acquisition_fields(metadata, t))
    THEN Raised(r.db, r.nextId)
    ELSE Done([r.db EXCEPT !.acquisitions =
                  upsert(@, i, [uid |-> metadata.acquisition.uid], r.nextId,
                         acquisition_on_insert(r.db.sessions[r.session], t),
                         acquisition_fields(metadata, t))],
              IF i = 0 THEN r.nextId + 1 ELSE r.nextId)

store_acquisition(r, metadata, t) ==
    IF ~r.ok THEN Raised(r.db, r.nextId)
    ELSE upsert_acquisition(r, metadata, t,
             find_one(r.db.acquisitions, LAMBDA x : x.uid = metadata.acquisition.uid))

\* create_container_hierarchy reading the four keys where it uses them: the
\* project is looked up before the session and acquisition uids are read
create_container_hierarchy_reads_late(s, metadata, t) ==
    IF metadata_valid(metadata)
    THEN store_acquisition(
             store_timestamps(
                 store_session(
                     project_of(s, metadata, t,
                         find_one(s.db.sessions, LAMBDA x : x.uid = metadata.session.uid)),
                     metadata, t),
                 metadata),
             metadata, t)
    ELSE IF /\ Has(metadata, "group") /\ Has(metadata.group, "_id")
            /\ Has(metadata, "project") /\ Has(metadata.project, "label")
    THEN [_find_or_create_destination_project(s, metadata.group._id,
              metadata.project.label, t, t) EXCEPT !.ok = FALSE]
    ELSE Raised(s.db, s.nextId)

\* create_container_hierarchy(metadata) on store state s = [db, nextId] at
\* time t: [db, nextId, ok], ok = FALSE when it raised
create_container_hierarchy(s, metadata, t) ==
    IF ~metadata_valid(metadata) THEN Raised(s.db, s.nextId)
    ELSE store_acquisition(
             store_timestamps(
                 store_session(
                     project_of(s, metadata, t,
                         find_one(s.db.sessions, LAMBDA x : x.uid = metadata.session.uid)),
                     metadata, t),
                 metadata),
             metadata, t)

-----------------------------------------------------------------------------
(* api/dao/containerutil.py *)

\* ReapedAcquisition (api/dao/reaperutil.py): a handle holds the acquisition
\* document it was made with and the recurring file fields

files_of(acquisition) == IF Has(acquisition, "files") THEN acquisition.files ELSE <<>>

\* f['name'] raises for an entry without a name that the scan meets
find_raises(acquisition, filename) ==
    \E j \in DOMAIN files_of(acquisition) :
        /\ ~Has(files_of(acquisition)[j], "name")
        /\ \A k \in 1 .. (j - 1) : files_of(acquisition)[k].name # filename

\* ReapedAcquisition.find: the index of the first entry of that name, 0 for None
ReapedAcquisition_find(acquisition, filename) ==
    find_one(files_of(acquisition), LAMBDA f : Has(f, "name") /\ f.name = filename)

\* {'_id': id, 'files.name': filename}
file_query(x, id, filename) ==
    x._id = id /\ \E f \in Range(files_of(x)) : Has(f, "name") /\ f.name = filename

\* {'$set': {'files.$.modified': t, 'files.$.k': v, ..}} on document x: the
\* first entry of that name is the one written
set_file(x, filename, fileinfo, t) ==
    [x EXCEPT !.files[ReapedAcquisition_find(x, filename)] =
        SetAll(SetField(@, "modified", t), fileinfo)]

\* lines 33-36 with fileinfo merged, i = the index of the matched acquisition
update_matched(c, i, fileinfo, t) ==
    IF i = 0 THEN [c |-> c, ok |-> TRUE]
    ELSE [c |-> [c EXCEPT ![i] = set_file(@, fileinfo.filename, fileinfo, t)], ok |-> TRUE]

\* lines 30-36 with fileinfo merged; fileinfo['filename'] raises KeyError
update_merged(c, id, fileinfo, t) ==
    IF ~Has(fileinfo, "filename") THEN [c |-> c, ok |-> FALSE]
    ELSE update_matched(c,
             find_one(c, LAMBDA x : file_query(x, id, fileinfo.filename)),
             fileinfo, t)

\* ReapedAcquisition.update_file(fileinfo) of a handle on acquisition id with
\* recurring fields self_fileinfo, on the acquisitions c at time t: [c, ok]
update_file(c, id, self_fileinfo, fileinfo, t) ==
    update_merged(c, id, SetAll(fileinfo, self_fileinfo), t)

\* {'$push': {'files': fileinfo}} on the acquisition at index i
push_file(c, i, fileinfo) ==
    IF i = 0 THEN [c |-> c, ok |-> TRUE]
    ELSE [c |-> [c EXCEPT ![i] = SetField(@, "files", Append(files_of(@), fileinfo))],
          ok |-> TRUE]

\* ReapedAcquisition.add_file(fileinfo)
add_file(c, id, self_fileinfo, fileinfo) ==
    push_file(c, find_one(c, LAMBDA x : x._id = id), SetAll(fileinfo, self_fileinfo))

\* A subject _id as the caller hands it in: a bson.ObjectId, its 24-digit hex
\* string, a string that is no ObjectId (v = 0), or None.  ObjectIds in the
\* store are kept as their number.
OidV(n) == [t |-> "oid", v |-> n]
HexV(n) == [t |-> "str", v |-> n]

\* bson.ObjectId(str(x)): InvalidId for a string that is no ObjectId
ObjectId_raises(x) == x.t = "str" /\ x.v = 0
ObjectId(x) == x.v

IsNone(x) == Has(x, "t") /\ x.t = "null"

\* subject.get('_id') is not None, subject.get('code') is not None
has_id(subject) == Has(subject, "_id") /\ ~IsNone(subject._id)
has_code(subject) == Has(subject, "code") /\ subject.code # "None"

\* pid of a session without a project
NoPid == 0

\* lines 23-25: the query on sessions
subject_query_any_project(x, code, pid) ==
    /\ Has(x, "subject") /\ Has(x.subject, "code") /\ x.subject.code = code
    /\ Has(x.subject, "_id")

subject_query(x, code, pid) ==
    /\ Has(x, "subject") /\ Has(x.subject, "code") /\ x.subject.code = code
    /\ Has(x, "project") /\ x.project = pid
    /\ Has(x.subject, "_id")

\* lines 28-32, result being the index find_one gave (0: None)
matched_subject(d, n, subject, result) ==
    IF result # 0
    THEN [subject |-> SetField(subject, "_id", d.sessions[result].subject._id),
          nextId |-> n, ok |-> TRUE]
    ELSE [subject |-> SetField(subject, "_id", n), nextId |-> n + 1, ok |-> TRUE]

\* lines 16-32 for a subject that is a dict
add_id(d, n, subject, pid) ==
    IF has_id(subject)
    THEN IF ObjectId_raises(subject._id)
         THEN [subject |-> subject, nextId |-> n, ok |-> FALSE]
         ELSE [subject |-> SetField(subject, "_id", ObjectId(subject._id)),
               nextId |-> n, ok |-> TRUE]
    ELSE matched_subject(d, n, subject,
             IF has_code(subject) /\ pid # NoPid
             THEN find_one(d.sessions, LAMBDA x : subject_query(x, subject.code, pid))
             ELSE 0)

\* add_id_to_subject drawing a new id without looking at the sessions
add_id_to_subject_fresh(d, n, subject, pid) ==
    [subject |-> SetField(IF IsNone(subject) THEN <<>> ELSE subject, "_id", n),
     nextId |-> n + 1, ok |-> TRUE]

\* add_id_to_subject(subject, pid) on store d, n the next ObjectId:
\* [subject, nextId, ok], ok = FALSE when it raised
add_id_to_subject(d, n, subject, pid) ==
    add_id(d, n, IF IsNone(subject) THEN <<>> ELSE subject, pid)

\* api.auth.INTEGER_ROLES: the rank of each role, in the order of the roles
INTEGER_ROLES == [anonymous |-> 0, ro |-> 1, rw |-> 2, admin |-> 3]

getPerm(name) == INTEGER_ROLES[name]

\* config.db[self.type + 's']
collection_of(type) ==
    [project |-> "projects", session |-> "sessions", acquisition |-> "acquisitions"][type]

\* ContainerReference.get: the index of the container, 0 when it raises
get(d, type, id) == find_one(d[collection_of(type)], LAMBDA x : x._id = id)

\* check_access returning when the stored role meets the required one
check_access_meets(permissions, userID, perm_name) ==
    \E i \in DOMAIN permissions :
        /\ permissions[i]._id = userID
        /\ getPerm(permissions[i].access) >= getPerm(perm_name)

\* lines 67-70: TRUE when the loop returns
check_access(permissions, userID, perm_name) ==
    \E i \in DOMAIN permissions :
        /\ permissions[i]._id = userID
        /\ getPerm(permissions[i].access) > getPerm(perm_name)

\* ContainerReference(type, id).check_access(userID, perm_name): "Ok" when it
\* returns, "NoSuch" when get() raises, "Forbidden" for the raise of line 72
check_access_of(d, c, userID, perm_name) ==
    IF c = 0 THEN "NoSuch"
    ELSE IF check_access(d[c].permissions, userID, perm_name) THEN "Ok"
    ELSE "Forbidden"

-----------------------------------------------------------------------------
(* Stores the migration engine is run against *)

\* ids of the sample documents lie below the first id bson.ObjectId() hands out
FirstFreeId == 20

Perm(user, access) == [_id |-> user, access |-> access]

PermsA == <<Perm("u1", "admin")>>
PermsB == <<Perm("u2", "ro"), Perm("u1", "rw")>>

LegacyJob(id, gear) ==
    [_id |-> id, algorithm_id |-> gear,
     input |-> [container_type |-> "acquisition", container_id |-> 14,
                filename |-> "1_1_dicom.zip", filehash |-> "v0-sha384"]]

SampleJobs ==
    { <<>>,
      <<LegacyJob(1, "dcm_convert")>>,
      <<LegacyJob(1, "dicom_mr_classifier"), LegacyJob(2, "afq")>> }

LegacyFile ==
    [name |-> "1_1_dicom.zip", origin |-> [type |-> "device", id |-> "scanner"],
     metadata |-> "fm", instrument |-> "MR"]

SampleCollections ==
    { <<>>,
      <<[_id |-> 3, permissions |-> <<Perm("u2", "ro"), Perm("u1", "admin")>>,
         modified |-> StrDate(5), metadata |-> "cm", files |-> <<LegacyFile>>]>>,
      <<[_id |-> 3, permissions |-> <<Perm("u2", "ro")>>, modified |-> Date(5)],
        [_id |-> 4, permissions |-> <<Perm("u1", "admin")>>, modified |-> StrDate(0)]>> }

NoTree == [projects |-> <<>>, sessions |-> <<>>, acquisitions |-> <<>>]

LegacyTree ==
    [projects |->
        <<[_id |-> 10, group |-> LabA, label |-> <<"p">>, permissions |-> PermsA,
           public |-> FALSE, metadata |-> "pm"]>>,
     sessions |->
        <<[_id |-> 11, uid |-> "s1", project |-> 10, permissions |-> PermsB,
           subject |-> [code |-> "c1", metadata |-> "sm"]],
          [_id |-> 12, uid |-> "s2", project |-> 10, permissions |-> PermsA,
           subject |-> [code |-> "c1"]]>>,
     acquisitions |->
        <<[_id |-> 14, uid |-> "a1", session |-> 11, permissions |-> PermsB,
           instrument |-> "MR", measurement |-> "anatomy", files |-> <<LegacyFile>>]>>]

MixedTree ==
    [projects |-> <<[_id |-> 10, group |-> LabA, label |-> <<"p">>, public |-> FALSE]>>,
     sessions |->
        <<[_id |-> 11, uid |-> "s1", project |-> 10, permissions |-> PermsA,
           subject |-> [code |-> "c1", _id |-> 5]],
          [_id |-> 12, uid |-> "s2", project |-> 10, permissions |-> PermsA,
           subject |-> [code |-> "c1"]],
          [_id |-> 13, uid |-> "s3", project |-> 10, permissions |-> PermsA]>>,
     acquisitions |->
        <<[_id |-> 14, uid |-> "a1", session |-> 12, permissions |-> PermsA,
           files |-> <<[name |-> "x", origin |-> [type |-> "job"]],
                       [name |-> "y", origin |-> [type |-> "device", id |-> "scanner"]]>>]>>]

SampleTrees == {NoTree, LegacyTree, MixedTree}

\* what the version collection holds: nothing, or the singleton with a null,
\* a non-int or an int `database`
SampleVersions ==
    { <<>> } \cup
    { <<[_id |-> "version", database |-> x]>> :
        x \in {NullV, StrV} \cup {IntV(n) : n \in 0 .. MaxVersion} }

Groups ==
    <<[_id |-> LabA, roles |-> PermsA], [_id |-> LabB, roles |-> PermsB],
      [_id |-> Unknown, roles |-> <<>>]>>

Store(version, jobs, collections, tree) ==
    [version |-> version, groups |-> Groups, jobs |-> jobs, collections |-> collections,
     projects |-> tree.projects, sessions |-> tree.sessions,
     acquisitions |-> tree.acquisitions]

NoArg == [none |-> TRUE]

-----------------------------------------------------------------------------
(* The migration engine as a state machine *)

Init ==
    /\ db \in {Store(v, j, c, t) : v \in SampleVersions, j \in SampleJobs,
                                   c \in SampleCollections, t \in SampleTrees}
    /\ nextId = FirstFreeId
    /\ now = 0
    /\ op = "init"
    /\ arg = NoArg
    /\ db_version = IntV(0)
    /\ calls = <<>>
    /\ ret = 0
    /\ repeated = FALSE
    /\ carried = {}
    /\ proc = <<>>

\* `database.py confirm_schema_match`
ConfirmSchemaMatch ==
    /\ op' = "confirm_schema_match"
    /\ arg' = NoArg
    /\ db_version' = get_db_version(db)
    /\ ret' = confirm_schema_match(get_db_version(db))
    /\ calls' = <<>>
    /\ repeated' = (op = "confirm_schema_match")
    /\ UNCHANGED <<db, nextId, now, carried, proc>>

\* the state an upgrade_schema() run that returned r leaves
Upgraded(r, v) ==
    /\ op' = "upgrade_schema"
    /\ arg' = NoArg
    /\ db_version' = v
    /\ db' = r.db
    /\ nextId' = r.nextId
    /\ calls' = r.calls
    /\ ret' = r.code
    /\ repeated' = (op = "upgrade_schema")
    /\ UNCHANGED <<now, carried, proc>>

\* `database.py upgrade_schema`
UpgradeSchema ==
    \E fault \in 0 .. LAST_UPGRADE :
        Upgraded(upgrade_schema([db |-> db, nextId |-> nextId], get_db_version(db), fault),
                 get_db_version(db))

Next == ConfirmSchemaMatch \/ UpgradeSchema

Spec == Init /\ [][Next]_vars

-----------------------------------------------------------------------------
(* Re-running upgrade_schema after a failed run *)

\* the state an upgrade_schema() run leaves that was started with the driver
\* failing in routine `fault` (0: no failure); `now` counts the failed runs
\* whose cause has been removed since
Ran(r, v, fault) ==
    /\ op' = "upgrade_schema"
    /\ arg' = [fault |-> fault]
    /\ db_version' = v
    /\ db' = r.db
    /\ nextId' = r.nextId
    /\ calls' = r.calls
    /\ ret' = r.code
    /\ repeated' = (op = "upgrade_schema")
    /\ now' = 1
    /\ UNCHANGED <<carried, proc>>

\* the first run, during which the driver fails in one routine
FailingUpgrade ==
    /\ now = 0
    /\ \E fault \in 1 .. LAST_UPGRADE :
          Ran(upgrade_schema([db |-> db, nextId |-> nextId], get_db_version(db), fault),
              get_db_version(db), fault)

\* the operator starts `database.py upgrade_schema` again after a run exited 1
\* (now = 2 while that run is under way)
Relaunch ==
    /\ now = 1
    /\ ret = 1
    /\ now' = 2
    /\ UNCHANGED <<db, nextId, op, arg, db_version, calls, ret, repeated, carried, proc>>

\* the run that was started: upgrade_schema() with the cause of failure gone
RerunUpgrade ==
    /\ now = 2
    /\ Ran(upgrade_schema([db |-> db, nextId |-> nextId], get_db_version(db), 0),
           get_db_version(db), 0)

NextRecovery == FailingUpgrade \/ Relaunch \/ RerunUpgrade

\* a run that was started runs to its exit
RunsToCompletion == []<>(now # 2)

\* the single runner keeps re-running while the last run failed, and every
\* run it starts exits
SpecRecovery ==
    Init /\ [][NextRecovery]_vars /\ WF_vars(Relaunch) /\ RunsToCompletion

-----------------------------------------------------------------------------
(* The reaper ingestion path as a state machine *)

Lab == <<"l", "a", "b">>

\* (group._id, session.uid) of the records that arrive: "labA" matches group
\* labA alone, "lab" matches labA and labB alike
Arrivals == {<<LabA, "s1">>, <<LabA, "s2">>, <<Lab, "s2">>}

AcquisitionUids == {"a1", "a2"}

Record(g, suid, auid) ==
    [group |-> [_id |-> g], project |-> [label |-> <<"p">>],
     session |-> [uid |-> suid], acquisition |-> [uid |-> auid]]

\* what a record carries besides its keys
Plain(m) == m

WithSubject(m, ts) ==
    [group |-> m.group, project |-> m.project, session |-> m.session,
     acquisition |-> SetField(m.acquisition, "timestamp", StrDate(ts)),
     subject |-> [code |-> "c1"]]

WithSessionTime(m, sts, ts) ==
    [m EXCEPT !.session = SetField(@, "timestamp", StrDate(sts)),
              !.acquisition = SetField(@, "timestamp", StrDate(ts))]

\* records that lack one of the four keys: the sub-document is empty, or is
\* not there at all
Incomplete ==
    { [Record(LabA, "s1", "a1") EXCEPT ![k] = <<>>] :
        k \in {"group", "project", "session", "acquisition"} }
    \cup { [project |-> [label |-> <<"p">>], session |-> [uid |-> "s1"],
            acquisition |-> [uid |-> "a1"]],
           [group |-> [_id |-> LabA], project |-> [label |-> <<"p">>],
            session |-> [uid |-> "s1"]] }

Metadata ==
    UNION { { Plain(Record(a[1], a[2], u)),
              WithSubject(Record(a[1], a[2], u), 1),
              WithSubject(Record(a[1], a[2], u), 2),
              WithSessionTime(Record(a[1], a[2], u), 3, 2) } :
            a \in Arrivals, u \in AcquisitionUids }
    \cup Incomplete

InitReconcile ==
    /\ db = Store(<<[_id |-> "version", database |-> IntV(CURRENT_DATABASE_VERSION)]>>,
                  <<>>, <<>>, NoTree)
    /\ nextId = FirstFreeId
    /\ now = 0
    /\ op = "init"
    /\ arg = NoArg
    /\ db_version = IntV(0)
    /\ calls = <<>>
    /\ ret = 0
    /\ repeated = FALSE
    /\ carried = {}
    /\ proc = <<>>

\* what a call that returned carried: the session uid, the _id of the project
\* recorded on the stored session, the acquisition timestamp (0 for none) and
\* whether it carried a session timestamp
Carried(d, metadata) ==
    [uid |-> metadata.session.uid,
     project |-> d.sessions[find_one(d.sessions,
                                     LAMBDA x : x.uid = metadata.session.uid)].project,
     ats |-> IF Has(metadata.acquisition, "timestamp")
             THEN metadata.acquisition.timestamp.v ELSE 0,
     sts |-> Has(metadata.session, "timestamp")]

\* the state a create_container_hierarchy(metadata) call that gave r leaves
Reconciled(r, metadata) ==
    /\ op' = "create_container_hierarchy"
    /\ arg' = metadata
    /\ repeated' = (op = "create_container_hierarchy" /\ arg = metadata)
    /\ db' = r.db
    /\ nextId' = r.nextId
    /\ ret' = IF r.ok THEN 0 ELSE 1
    /\ carried' = IF r.ok THEN carried \cup {Carried(r.db, metadata)} ELSE carried
    /\ now' = now + 1
    /\ UNCHANGED <<db_version, calls, proc>>

\* one reaper upload: create_container_hierarchy(metadata) at time now + 1
CreateContainerHierarchy ==
    /\ now < MaxCalls
    /\ \E metadata \in Metadata :
        Reconciled(create_container_hierarchy([db |-> db, nextId |-> nextId],
                                              metadata, now + 1),
                   metadata)

\* The API changes the permissions of a project or of a session.
SetPermissions ==
    \E kind \in {"projects", "sessions"} :
        \E i \in DOMAIN db[kind] :
            /\ db[kind][i].permissions # PermsB
            /\ db' = [db EXCEPT ![kind][i].permissions = PermsB]
            /\ op' = "set_permissions"
            /\ arg' = [kind |-> kind, index |-> i]
            /\ repeated' = FALSE
            /\ UNCHANGED <<nextId, now, db_version, calls, ret, carried, proc>>

NextReconcile == CreateContainerHierarchy \/ SetPermissions

SpecReconcile == InitReconcile /\ [][NextReconcile]_vars

-----------------------------------------------------------------------------
(* _find_or_create_destination_project as a state machine *)

LabAB == <<"l", "a", "b", "A", "B">>

\* the groups of a site: labA and labB, and a site that also has labAB, which
\* lies within the cutoff of both
GroupsNear == Groups \o <<[_id |-> LabAB, roles |-> PermsA]>>

\* raw group names: a group's own name, a prefix of two, a name near nothing
RawGroupNames == {LabA, LabB, Lab, LabAB, Unknown, <<"x">>}

RawProjectLabels == {<<"p">>, <<"q">>}

InitResolve ==
    /\ \E g \in {Groups, GroupsNear} :
          db = [Store(<<[_id |-> "version", database |-> IntV(CURRENT_DATABASE_VERSION)]>>,
                      <<>>, <<>>, NoTree) EXCEPT !.groups = g]
    /\ nextId = FirstFreeId
    /\ now = 0
    /\ op = "init"
    /\ arg = NoArg
    /\ db_version = IntV(0)
    /\ calls = <<>>
    /\ ret = 0
    /\ repeated = FALSE
    /\ carried = {}
    /\ proc = <<>>

\* the state a call that gave r = [db, nextId, ok, project] leaves; ret is the
\* _id of the returned project, -1 when the call raised
Resolved(r, group_name, project_label) ==
    /\ op' = "_find_or_create_destination_project"
    /\ arg' = [group_name |-> group_name, project_label |-> project_label]
    /\ repeated' = (op = "_find_or_create_destination_project"
                    /\ arg = [group_name |-> group_name, project_label |-> project_label])
    /\ db' = r.db
    /\ nextId' = r.nextId
    /\ ret' = IF r.ok THEN r.db.projects[r.project]._id ELSE -1
    /\ now' = now + 1
    /\ UNCHANGED <<db_version, calls, carried, proc>>

FindOrCreateDestinationProject ==
    /\ now < MaxCalls
    /\ \E group_name \in RawGroupNames, project_label \in RawProjectLabels :
          Resolved(_find_or_create_destination_project([db |-> db, nextId |-> nextId],
                       group_name, project_label, now + 1, now + 1),
                   group_name, project_label)

NextResolve == FindOrCreateDestinationProject

SpecResolve == InitResolve /\ [][NextResolve]_vars

-----------------------------------------------------------------------------
(* ContainerReference.check_access as a state machine *)

\* a tree whose permission lists are empty, hold one entry per user, or hold
\* two entries for one user
AccessTree ==
    [projects |->
        <<[_id |-> 10, group |-> LabA, label |-> <<"p">>, permissions |-> PermsB,
           public |-> FALSE]>>,
     sessions |->
        <<[_id |-> 11, uid |-> "s1", project |-> 10, public |-> FALSE,
           permissions |-> <<Perm("u1", "ro"), Perm("u2", "anonymous"),
                             Perm("u1", "admin")>>],
          [_id |-> 12, uid |-> "s2", project |-> 10, public |-> FALSE,
           permissions |-> <<>>]>>,
     acquisitions |->
        <<[_id |-> 14, uid |-> "a1", session |-> 11, public |-> FALSE,
           permissions |-> <<Perm("u2", "rw")>>]>>]

Users == {"u1", "u2", "u3"}

ContainerTypes == {"project", "session", "acquisition"}

ContainerIds == {10, 11, 12, 14, 15}

InitAccess ==
    /\ db \in {Store(<<[_id |-> "version", database |-> IntV(CURRENT_DATABASE_VERSION)]>>,
                     <<>>, <<>>, t) : t \in {LegacyTree, AccessTree}}
    /\ nextId = FirstFreeId
    /\ now = 0
    /\ op = "init"
    /\ arg = NoArg
    /\ db_version = IntV(0)
    /\ calls = <<>>
    /\ ret = "None"
    /\ repeated = FALSE
    /\ carried = {}
    /\ proc = <<>>

CheckAccess ==
    \E type \in ContainerTypes, id \in ContainerIds, userID \in Users,
       perm_name \in DOMAIN INTEGER_ROLES :
        /\ op' = "check_access"
        /\ arg' = [type |-> type, id |-> id, userID |-> userID, perm_name |-> perm_name]
        /\ ret' = check_access_of(db[collection_of(type)], get(db, type, id),
                                  userID, perm_name)
        /\ repeated' = FALSE
        /\ UNCHANGED <<db, nextId, now, db_version, calls, carried, proc>>

NextAccess == CheckAccess \/ SetPermissions

SpecAccess == InitAccess /\ [][NextAccess]_vars

-----------------------------------------------------------------------------
(* Concurrent reaper uploads: create_container_hierarchy one store access  *)
(* at a time                                                               *)

Callers == {"r1", "r2"}

WithTime(m, ts) == [m EXCEPT !.acquisition = SetField(@, "timestamp", StrDate(ts))]

\* uploads of one session and acquisition, under a group name that matches
\* labA alone or labA and labB alike
ConcurrentMetadata ==
    UNION { { Plain(Record(g, "s1", "a1")), WithTime(Record(g, "s1", "a1"), 1),
              WithTime(Record(g, "s1", "a1"), 2) } : g \in {LabA, Lab} }

Idle == [pc |-> "idle"]

InitConcurrent ==
    /\ db = Store(<<[_id |-> "version", database |-> IntV(CURRENT_DATABASE_VERSION)]>>,
                  <<>>, <<>>, NoTree)
    /\ nextId = FirstFreeId
    /\ now = 0
    /\ op = "init"
    /\ arg = NoArg
    /\ db_version = IntV(0)
    /\ calls = <<>>
    /\ ret = 0
    /\ repeated = FALSE
    /\ carried = {}
    /\ proc = [p \in Callers |-> Idle]

\* the locals of caller p after a step that gave r and goes on at pc; touched
\* is the set of _ids of the projects the call has inserted or updated
Stepped(p, r, pc, touched) ==
    /\ db' = r.db
    /\ nextId' = r.nextId
    /\ proc' = [proc EXCEPT ![p] =
                  IF r.ok
                  THEN [@ EXCEPT !.pc = pc, !.project = r.project, !.session = r.session,
                                 !.touched = @ \cup touched]
                  ELSE [@ EXCEPT !.pc = "raised"]]
    /\ UNCHANGED <<now, op, arg, db_version, calls, ret, repeated, carried>>

\* the store and the locals of caller p, as the record the steps work on
Local(p) ==
    [db |-> db, nextId |-> nextId, ok |-> TRUE, project |-> proc[p].project,
     session |-> proc[p].session]

\* lines 74-96: a call starts, reads the clock and looks the session up
Begin(p) ==
    /\ proc[p].pc \in {"idle", "done", "raised"}
    /\ now < MaxCalls
    /\ \E metadata \in ConcurrentMetadata :
          proc' = [proc EXCEPT ![p] =
                     [pc |-> IF metadata_valid(metadata) THEN "project" ELSE "raised",
                      metadata |-> metadata, t |-> now + 1,
                      session_obj |-> find_one(db.sessions,
                                               LAMBDA x : x.uid = metadata.session.uid),
                      project |-> 0, session |-> 0, touched |-> {}]]
    /\ now' = now + 1
    /\ UNCHANGED <<db, nextId, op, arg, db_version, calls, ret, repeated, carried>>

FoundProject(p, r) ==
    Stepped(p, [db |-> r.db, nextId |-> r.nextId, ok |-> r.ok, project |-> r.project,
                session |-> 0],
            "session",
            IF Len(r.db.projects) > Len(db.projects)
            THEN {r.db.projects[r.project]._id} ELSE {})

\* lines 97-100
FindProject(p) ==
    /\ proc[p].pc = "project"
    /\ FoundProject(p, project_of([db |-> db, nextId |-> nextId], proc[p].metadata,
                                  proc[p].t, proc[p].session_obj))

\* lines 101-121
UpsertSession(p) ==
    /\ proc[p].pc = "session"
    /\ Stepped(p, store_session(Local(p), proc[p].metadata, proc[p].t),
               IF Has(proc[p].metadata.acquisition, "timestamp")
               THEN "project_timestamp" ELSE "acquisition",
               {})

\* lines 125-127
MaxProjectTimestamp(p) ==
    /\ proc[p].pc = "project_timestamp"
    /\ Stepped(p, max_project_timestamp(Local(p), proc[p].metadata), "session_timestamp",
               {db.projects[proc[p].project]._id})

\* line 128
MinSessionTimestamp(p) ==
    /\ proc[p].pc = "session_timestamp"
    /\ Stepped(p, min_session_timestamp(Local(p), proc[p].metadata), "acquisition", {})

StoredAcquisition(p, r) ==
    Stepped(p, [db |-> r.db, nextId |-> r.nextId, ok |-> r.ok,
                project |-> proc[p].project, session |-> proc[p].session],
            "done", {})

\* lines 130-147
UpsertAcquisition(p) ==
    /\ proc[p].pc = "acquisition"
    /\ StoredAcquisition(p, store_acquisition(Local(p), proc[p].metadata, proc[p].t))

NextConcurrent ==
    \E p \in Callers :
        \/ Begin(p)
        \/ FindProject(p)
        \/ UpsertSession(p)
        \/ MaxProjectTimestamp(p)
        \/ MinSessionTimestamp(p)
        \/ UpsertAcquisition(p)

SpecConcurrent == InitConcurrent /\ [][NextConcurrent]_vars

-----------------------------------------------------------------------------
(* Ingestion of sessions with a subject: add_id_to_subject, then the store *)
(* of the session by the caller                                            *)

\* the session each caller ingests
SessionOf == [r1 |-> "s4", r2 |-> "s5"]

Subjects ==
    { NullV, <<>>, [code |-> "c1"], [code |-> "c2"], [code |-> "None"],
      [_id |-> NullV, code |-> "c1"], [_id |-> OidV(5), code |-> "c2"],
      [_id |-> HexV(7), code |-> "c1"], [_id |-> HexV(0), code |-> "c1"] }

Pids == {NoPid, 10, 11}

InitSubject ==
    /\ db \in {Store(<<[_id |-> "version", database |-> IntV(CURRENT_DATABASE_VERSION)]>>,
                     <<>>, <<>>, t) : t \in {NoTree, MixedTree}}
    /\ nextId = FirstFreeId
    /\ now = 0
    /\ op = "init"
    /\ arg = NoArg
    /\ db_version = IntV(0)
    /\ calls = <<>>
    /\ ret = 0
    /\ repeated = FALSE
    /\ carried = {}
    /\ proc = [p \in Callers |-> Idle]

\* the state an add_id_to_subject call of caller p that gave r leaves; `after`
\* holds the callers whose session was stored before the call; ret is the
\* _id of the returned subject, -1 when the call raised
SubjectResolved(p, r, subject, pid) ==
    /\ op' = "add_id_to_subject"
    /\ arg' = [subject |-> subject, pid |-> pid]
    /\ ret' = IF r.ok THEN r.subject._id ELSE -1
    /\ nextId' = r.nextId
    /\ proc' = [proc EXCEPT ![p] =
                  [pc |-> IF r.ok THEN "resolved" ELSE "raised",
                   given |-> subject, subject |-> r.subject, pid |-> pid,
                   after |-> {q \in Callers : proc[q].pc = "stored"}]]
    /\ UNCHANGED <<db, now, db_version, calls, repeated, carried>>

AddIdToSubject(p) ==
    /\ proc[p].pc = "idle"
    /\ \E subject \in Subjects, pid \in Pids :
          SubjectResolved(p, add_id_to_subject(db, nextId, subject, pid), subject, pid)

\* the session document the caller writes
NewSession(p, id) ==
    IF proc[p].pid = NoPid
    THEN [_id |-> id, uid |-> SessionOf[p], subject |-> proc[p].subject]
    ELSE [_id |-> id, uid |-> SessionOf[p], project |-> proc[p].pid,
          subject |-> proc[p].subject]

\* the caller of add_id_to_subject stores its session
StoreSession(p) ==
    /\ proc[p].pc = "resolved"
    /\ db' = [db EXCEPT !.sessions = Append(@, NewSession(p, nextId))]
    /\ nextId' = nextId + 1
    /\ proc' = [proc EXCEPT ![p].pc = "stored"]
    /\ op' = "store_session"
    /\ UNCHANGED <<now, arg, db_version, calls, ret, repeated, carried>>

NextSubject == \E p \in Callers : AddIdToSubject(p) \/ StoreSession(p)

SpecSubject == InitSubject /\ [][NextSubject]_vars

-----------------------------------------------------------------------------
(* File entries of an acquisition: ReapedAcquisition handles *)

\* Number of update_file and add_file calls in a behaviour.
MaxFileCalls == 2

Handles == {"h1", "h2"}

\* an acquisition without a file list and one that holds file x
FileTree ==
    [projects |-> <<>>, sessions |-> <<>>,
     acquisitions |->
        <<[_id |-> 14, uid |-> "a1", session |-> 11, permissions |-> PermsA,
           public |-> FALSE],
          [_id |-> 15, uid |-> "a2", session |-> 11, permissions |-> PermsA,
           public |-> FALSE, files |-> <<[name |-> "x", size |-> 0]>>]>>]

\* the `file` record a handle is made with
RecurringFields == {<<>>, [origin |-> "reaper"]}

Fileinfos ==
    { [filename |-> "x", name |-> "x", size |-> 1],
      [filename |-> "y", name |-> "y", size |-> 1],
      [filename |-> "x", size |-> 2],
      [name |-> "y", size |-> 2] }

InitFiles ==
    /\ db = Store(<<[_id |-> "version", database |-> IntV(CURRENT_DATABASE_VERSION)]>>,
                  <<>>, <<>>, FileTree)
    /\ nextId = FirstFreeId
    /\ now = 0
    /\ op = "init"
    /\ arg = NoArg
    /\ db_version = IntV(0)
    /\ calls = <<>>
    /\ ret = 0
    /\ repeated = FALSE
    /\ carried = {}
    /\ proc = [h \in Handles |-> Idle]

\* ReapedAcquisition(acquisition_obj, file_): the handle keeps the document
NewHandle(h) ==
    /\ proc[h].pc = "idle"
    /\ \E i \in DOMAIN db.acquisitions, fileinfo \in RecurringFields :
          proc' = [proc EXCEPT ![h] = [pc |-> "bound", acquisition |-> db.acquisitions[i],
                                       fileinfo |-> fileinfo]]
    /\ op' = "ReapedAcquisition"
    /\ arg' = [handle |-> h]
    /\ UNCHANGED <<db, nextId, now, db_version, calls, ret, repeated, carried>>

\* handle.find(filename); ret is the index found, 0 for None, -1 for a raise
FindFile(h) ==
    /\ proc[h].pc = "bound"
    /\ \E filename \in {"x", "y"} :
          /\ arg' = [handle |-> h, filename |-> filename]
          /\ ret' = IF find_raises(proc[h].acquisition, filename) THEN -1
                    ELSE ReapedAcquisition_find(proc[h].acquisition, filename)
    /\ op' = "find"
    /\ UNCHANGED <<db, nextId, now, db_version, calls, repeated, carried, proc>>

\* the state a call on handle h that gave r = [c, ok] leaves
FileStored(h, name, fileinfo, r) ==
    /\ db' = [db EXCEPT !.acquisitions = r.c]
    /\ op' = name
    /\ arg' = [handle |-> h, fileinfo |-> fileinfo]
    /\ ret' = IF r.ok THEN 0 ELSE 1
    /\ now' = now + 1
    /\ UNCHANGED <<nextId, db_version, calls, repeated, carried, proc>>

UpdateFile(h) ==
    /\ proc[h].pc = "bound"
    /\ now < MaxFileCalls
    /\ \E fileinfo \in Fileinfos :
          FileStored(h, "update_file", fileinfo,
                     update_file(db.acquisitions, proc[h].acquisition._id,
                                 proc[h].fileinfo, fileinfo, now + 1))

AddFile(h) ==
    /\ proc[h].pc = "bound"
    /\ now < MaxFileCalls
    /\ \E fileinfo \in Fileinfos :
          FileStored(h, "add_file", fileinfo,
                     add_file(db.acquisitions, proc[h].acquisition._id,
                              proc[h].fileinfo, fileinfo))

NextFiles ==
    \E h \in Handles : NewHandle(h) \/ FindFile(h) \/ UpdateFile(h) \/ AddFile(h)

SpecFiles == InitFiles /\ [][NextFiles]_vars

-----------------------------------------------------------------------------
(* Properties of the migration engine (checked under Spec) *)

\* the sequence a, a + 1, .., b
UpTo(a, b) == [i \in 1 .. (b - a + 1) |-> a + i - 1]

IsPrefix(p, q) == Len(p) <= Len(q) /\ \A i \in DOMAIN p : p[i] = q[i]

\* C1: from a stored version d in 0 .. CURRENT_VERSION, upgrade() enters
\* exactly upgrade_to_(d+1) .. upgrade_to_(CURRENT_VERSION), each once, in
\* ascending order (a raising routine ends the run, so the routines entered
\* are a prefix of that list, and all of it when the run succeeds), and a
\* successful run leaves the marker at CURRENT_VERSION.
C1_UpgradeRunsMissingVersionsOnly ==
    (op = "upgrade_schema" /\ db_version.t = "int"
        /\ db_version.v \in 0 .. CURRENT_DATABASE_VERSION)
    => /\ IsPrefix(calls, UpTo(db_version.v + 1, CURRENT_DATABASE_VERSION))
       /\ ret = 0 => /\ calls = UpTo(db_version.v + 1, CURRENT_DATABASE_VERSION)
                     /\ get_db_version(db) = IntV(CURRENT_DATABASE_VERSION)

\* C2: with the marker at CURRENT_VERSION, upgrade() enters no routine,
\* leaves every document and the marker as they were, and exits 0.
C2_UpgradeAtCurrentIsNoOp ==
    [][(op' = "upgrade_schema" /\ get_db_version(db) = IntV(CURRENT_DATABASE_VERSION))
       => (calls' = <<>> /\ db' = db /\ ret' = 0)]_vars

\* C3 as stated: a run of upgrade() that fails (exit code 1) leaves the
\* version marker at its value before the run, for every starting version.
C3_FailedUpgradeKeepsMarker ==
    (op = "upgrade_schema" /\ ret = 1) => get_db_version(db) = db_version

VersionOne == <<[_id |-> "version", database |-> IntV(1)]>>

\* C3 as amended: a failed run of upgrade() exits 1 and leaves the version
\* collection as it was, except that a run started without a version record
\* whose upgrade_to_1 completed leaves the record upgrade_to_1 inserted, the
\* marker reading 1.
C3_FailedUpgradeKeepsMarkerOrInitializesIt ==
    [][(op' = "upgrade_schema" /\ ret' # 0)
       => /\ ret' = 1
          /\ IF db.version = <<>> /\ Len(calls') >= 2
             THEN db'.version = VersionOne
             ELSE db'.version = db.version]_vars

\* C3, the case: a run that started without a version record failed in a
\* routine after upgrade_to_1
C3_Witness ==
    /\ op = "upgrade_schema" /\ ret = 1
    /\ Len(calls) >= 2 /\ calls[1] = 1
    /\ db.version = VersionOne

\* C4: no run of upgrade() or checkCompatibility() leaves an integer marker
\* smaller than the integer it read, whatever the stored version was.
C4_MarkerNeverDecreases ==
    (op \in {"upgrade_schema", "confirm_schema_match"}
        /\ db_version.t = "int" /\ get_db_version(db).t = "int")
    => get_db_version(db).v >= db_version.v

SameStore(r1, r2) == r2.ok /\ r2.db = r1.db

RunsTwice(n, r1) == r1.ok => SameStore(r1, upgrade_to(n, r1))

\* C5: every upgrade_to_N, run again on the store its first run left,
\* completes without raising and changes no document.
C5_TransformationsAreIdempotent ==
    \A n \in 1 .. LAST_UPGRADE : RunsTwice(n, upgrade_to(n, [db |-> db, nextId |-> nextId]))

\* C6: checkCompatibility() exits 43 when the stored version (an absent
\* marker read as 0) is no integer or exceeds CURRENT_VERSION, 42 when it is
\* below CURRENT_VERSION and 0 exactly when it equals CURRENT_VERSION, and
\* writes nothing to the store.
C6_CompatibilityCodes ==
    [][op' = "confirm_schema_match"
       => /\ db' = db
          /\ ret' = IF get_db_version(db).t # "int" THEN 43
                    ELSE IF get_db_version(db).v > CURRENT_DATABASE_VERSION THEN 43
                    ELSE IF get_db_version(db).v < CURRENT_DATABASE_VERSION THEN 42
                    ELSE 0
          /\ ret' = 0 <=> db.version = <<[_id |-> "version",
                                          database |-> IntV(CURRENT_DATABASE_VERSION)]>>]_vars

\* C6, the case: version 5 is upgradable
C6_Witness ==
    op = "confirm_schema_match" /\ db_version = IntV(5) /\ ret = 42

-----------------------------------------------------------------------------
(* Properties of the ingestion path (checked under SpecReconcile) *)

WithUid(c, uid) == Find(c, LAMBDA x : x.uid = uid)

CreationFields == {"created", "permissions", "public"}

SameCreationFields(d1, d2) == \A f \in CreationFields : d1[f] = d2[f]

\* C7: a call repeated with the input of the call before it, which returned,
\* returns too and leaves exactly one session with that session uid and one
\* acquisition with that acquisition uid, their created, permissions and
\* public as the first call left them.
C7_ReconcileTwiceIsIdempotent ==
    [][(op' = "create_container_hierarchy" /\ repeated' /\ ret = 0)
       => /\ ret' = 0
          /\ Len(WithUid(db'.sessions, arg'.session.uid)) = 1
          /\ Len(WithUid(db'.acquisitions, arg'.acquisition.uid)) = 1
          /\ Len(WithUid(db.sessions, arg'.session.uid)) = 1
          /\ Len(WithUid(db.acquisitions, arg'.acquisition.uid)) = 1
          /\ SameCreationFields(db'.sessions[WithUid(db'.sessions, arg'.session.uid)[1]],
                                db.sessions[WithUid(db.sessions, arg'.session.uid)[1]])
          /\ SameCreationFields(
                 db'.acquisitions[WithUid(db'.acquisitions, arg'.acquisition.uid)[1]],
                 db.acquisitions[WithUid(db.acquisitions, arg'.acquisition.uid)[1]])]_vars

\* C7, the case: the second of two identical calls has returned, later than
\* the session and the acquisition were created
C7_Witness ==
    /\ op = "create_container_hierarchy" /\ repeated /\ ret = 0
    /\ db.sessions[WithUid(db.sessions, arg.session.uid)[1]].created < now
    /\ db.acquisitions[WithUid(db.acquisitions, arg.acquisition.uid)[1]].created < now

\* C8: two stored sessions with different uids, the same project and the
\* same subject.code (no call carries a subject._id) both have a
\* subject._id, and the two are equal.
C8_SubjectConvergence ==
    \A i, j \in DOMAIN db.sessions :
        (/\ db.sessions[i].uid # db.sessions[j].uid
         /\ db.sessions[i].project = db.sessions[j].project
         /\ HasSubjectCode(db.sessions[i]) /\ HasSubjectCode(db.sessions[j])
         /\ db.sessions[i].subject.code = db.sessions[j].subject.code)
        => /\ HasSubjectId(db.sessions[i]) /\ HasSubjectId(db.sessions[j])
           /\ db.sessions[i].subject._id = db.sessions[j].subject._id

Min(S) == CHOOSE x \in S : \A y \in S : x <= y
Max(S) == CHOOSE x \in S : \A y \in S : x >= y

\* the acquisition timestamps the calls for session uid carried
SessionTimes(uid) == {c.ats : c \in {x \in carried : x.uid = uid /\ x.ats # 0}}

\* the acquisition timestamps the calls that landed in project pid carried
ProjectTimes(pid) == {c.ats : c \in {x \in carried : x.project = pid /\ x.ats # 0}}

ProjectTimestampIsMax ==
    \A i \in DOMAIN db.projects :
        ProjectTimes(db.projects[i]._id) # {}
        => /\ Has(db.projects[i], "timestamp")
           /\ db.projects[i].timestamp = Date(Max(ProjectTimes(db.projects[i]._id)))

\* C9 as stated: a session's stored timestamp is the minimum of the
\* acquisition timestamps its calls carried and its project's the maximum,
\* whatever else the calls carried.
C9_TimestampsAreMinAndMax ==
    /\ ProjectTimestampIsMax
    /\ \A i \in DOMAIN db.sessions :
           SessionTimes(db.sessions[i].uid) # {}
           => /\ Has(db.sessions[i], "timestamp")
              /\ db.sessions[i].timestamp = Date(Min(SessionTimes(db.sessions[i].uid)))

\* C9 as amended: the same for the project; for the session, provided no
\* call for it carried a session.timestamp.
C9_TimestampsAreMinAndMaxWithoutSessionTime ==
    /\ ProjectTimestampIsMax
    /\ \A i \in DOMAIN db.sessions :
           (/\ SessionTimes(db.sessions[i].uid) # {}
            /\ \A c \in carried : c.uid = db.sessions[i].uid => ~c.sts)
           => /\ Has(db.sessions[i], "timestamp")
              /\ db.sessions[i].timestamp = Date(Min(SessionTimes(db.sessions[i].uid)))

\* C9, the case: the later of two calls for one session carried the later
\* acquisition timestamp, and none a session timestamp
C9_Witness ==
    /\ op = "create_container_hierarchy" /\ ret = 0
    /\ Has(arg.acquisition, "timestamp")
    /\ SessionTimes(arg.session.uid) = {1, 2}
    /\ arg.acquisition.timestamp.v = 2
    /\ \A c \in carried : ~c.sts
    /\ db.sessions[WithUid(db.sessions, arg.session.uid)[1]].timestamp = Date(1)
    /\ \E i \in DOMAIN db.projects : db.projects[i].timestamp = Date(2)

WithId(c, id) == c[Find(c, LAMBDA x : x._id = id)[1]]

\* C10: a call, or a change of a project's permissions, changes the
\* permissions of no stored session and of no stored acquisition (nor does a
\* change of a session's permissions change an acquisition's); a session a
\* call creates has the permissions its project has then, an acquisition it
\* creates those its session has then.
C10_PermissionsInheritedAtCreationOnly ==
    [][(op' = "create_container_hierarchy" \/ op' = "set_permissions")
       => /\ \A i \in DOMAIN db.acquisitions :
                 db'.acquisitions[i].permissions = db.acquisitions[i].permissions
          /\ (op' = "set_permissions" => arg'.kind = "projects")
             => \A i \in DOMAIN db.sessions :
                    db'.sessions[i].permissions = db.sessions[i].permissions
          /\ \A i \in DOMAIN db'.sessions \ DOMAIN db.sessions :
                 db'.sessions[i].permissions
                     = WithId(db'.projects, db'.sessions[i].project).permissions
          /\ \A i \in DOMAIN db'.acquisitions \ DOMAIN db.acquisitions :
                 db'.acquisitions[i].permissions
                     = WithId(db'.sessions, db'.acquisitions[i].session).permissions]_vars

\* C10, the case: a call for a session created earlier under labA (roles
\* PermsA) has returned after the permissions of its project were changed
C10_Witness ==
    /\ op = "create_container_hierarchy" /\ ret = 0
    /\ \E i \in DOMAIN db.sessions :
           /\ db.sessions[i].uid = arg.session.uid
           /\ db.sessions[i].created < now
           /\ db.sessions[i].permissions = PermsA
           /\ WithId(db.projects, db.sessions[i].project).permissions = PermsB

-----------------------------------------------------------------------------
(* Properties of _find_or_create_destination_project (checked under SpecResolve) *)

\* the known group identities within the similarity cutoff of a raw name
PassingGroups(name) == {g \in Range(db.groups) : ratio_passes(g._id, name)}

\* the (group, label) a raw pair is to land on
Expected(name, label) ==
    IF Cardinality(PassingGroups(name)) = 1
    THEN [group |-> (CHOOSE g \in PassingGroups(name) : TRUE)._id, label |-> label]
    ELSE [group |-> Unknown, label |-> name \o <<"_">> \o label]

ProjectsAt(c, key) == {i \in DOMAIN c : c[i].group = key.group /\ c[i].label = key.label}

ResolvedAsExpected ==
    op = "_find_or_create_destination_project" =>
        /\ ret # -1
        /\ \E i \in ProjectsAt(db.projects, Expected(arg.group_name, arg.project_label)) :
              db.projects[i]._id = ret

OneProjectPerKey ==
    \A i, j \in DOMAIN db.projects :
        db.projects[i].group = db.projects[j].group
        /\ db.projects[i].label = db.projects[j].label => i = j

\* a call leaves every stored project as it was; the one it adds has the
\* group's roles, public = false and created = the time of the call
SetOnlyOnInsert ==
    op' = "_find_or_create_destination_project" =>
        /\ \A i \in DOMAIN db.projects : i \in DOMAIN db'.projects /\ db'.projects[i] = db.projects[i]
        /\ \A i \in DOMAIN db'.projects \ DOMAIN db.projects :
              /\ db'.projects[i].public = FALSE
              /\ db'.projects[i].created = now'
              /\ \E g \in Range(db.groups) :
                    g._id = db'.projects[i].group /\ g.roles = db'.projects[i].permissions

\* C11: a raw (group name, label) pair lands on the one group within the
\* cutoff with the label unchanged when exactly one group passes, otherwise
\* (none or several, the name being a group's own name included) on group
\* "unknown" with label name + "_" + label; there is at most one project per
\* (group, label), and a call writes permissions/public/created only on the
\* project it inserts.
C11_ResolveProject ==
    /\ [](ResolvedAsExpected /\ OneProjectPerKey)
    /\ [][SetOnlyOnInsert]_vars

\* a group's own name that is within the cutoff of a second group went to
\* "unknown", and the second call for the pair found the project of the first
C11_Witness ==
    /\ op = "_find_or_create_destination_project"
    /\ repeated
    /\ arg.group_name = LabA
    /\ Cardinality(PassingGroups(LabA)) = 2
    /\ Len(db.projects) = 1
    /\ db.projects[1].group = Unknown

-----------------------------------------------------------------------------
(* Properties of check_access (checked under SpecAccess) *)

Rank == [anonymous |-> 0, ro |-> 1, rw |-> 2, admin |-> 3]

\* the container the last check_access call named
Checked == CHOOSE c \in Range(db[collection_of(arg.type)]) : c._id = arg.id

CheckedExists == \E c \in Range(db[collection_of(arg.type)]) : c._id = arg.id

HoldsMoreThan(c, userID, perm_name) ==
    \E p \in Range(c.permissions) : p._id = userID /\ Rank[p.access] > Rank[perm_name]

AccessDecision ==
    op = "check_access" /\ CheckedExists =>
        /\ ret = "Ok" <=> HoldsMoreThan(Checked, arg.userID, arg.perm_name)
        /\ ret # "Ok" => ret = "Forbidden"

\* C12: check_access succeeds exactly when the container's permissions hold
\* an entry of the identity whose rank is strictly above the required role's;
\* otherwise (equal rank and no entry included) it fails with Forbidden; the
\* call leaves the store as it was.
C12_CheckAccessIsStrict ==
    /\ []AccessDecision
    /\ [][op' = "check_access" => db' = db]_vars

\* a required role equal to the stored one was refused
C12_Witness ==
    /\ op = "check_access"
    /\ CheckedExists
    /\ ret = "Forbidden"
    /\ \E p \in Range(Checked.permissions) :
          p._id = arg.userID /\ p.access = arg.perm_name
    /\ \A p \in Range(Checked.permissions) :
          p._id = arg.userID => Rank[p.access] <= Rank[arg.perm_name]

-----------------------------------------------------------------------------
(* Validation of the reaper's metadata (checked under SpecReconcile) *)

RequiredKeys ==
    {<<"group", "_id">>, <<"project", "label">>, <<"session", "uid">>,
     <<"acquisition", "uid">>}

Lacks(metadata, k) == k[1] \notin DOMAIN metadata \/ k[2] \notin DOMAIN metadata[k[1]]

\* C13: a create_container_hierarchy call whose metadata lacks the group id,
\* the project label, the session uid or the acquisition uid raises, and
\* leaves every collection as it was.
C13_IncompleteMetadataIsRejected ==
    [][op' = "create_container_hierarchy" /\ (\E k \in RequiredKeys : Lacks(arg', k))
          => ret' = 1 /\ db' = db]_vars

\* a record without an acquisition uid was refused by a store that holds a
\* session of that uid
C13_Witness ==
    /\ op = "create_container_hierarchy"
    /\ Lacks(arg, <<"acquisition", "uid">>)
    /\ ~Lacks(arg, <<"session", "uid">>)
    /\ ret = 1
    /\ \E x \in Range(db.sessions) : x.uid = arg.session.uid

-----------------------------------------------------------------------------
(* Properties of concurrent uploads (checked under SpecConcurrent) *)

OnePerUid(c) == \A i, j \in DOMAIN c : c[i].uid = c[j].uid => i = j

\* a caller that returned finds its session and its acquisition in the store
StoredWhenDone ==
    \A p \in Callers :
        proc[p].pc = "done" =>
            /\ \E x \in Range(db.sessions) : x.uid = proc[p].metadata.session.uid
            /\ \E x \in Range(db.acquisitions) : x.uid = proc[p].metadata.acquisition.uid

SessionOnInsert == {"group", "project", "permissions", "public", "created"}

AcquisitionOnInsert == {"session", "permissions", "public", "created"}

KeepsFields(c1, c2, fields) ==
    \A i \in DOMAIN c1 :
        /\ i \in DOMAIN c2
        /\ \A f \in fields : c2[i][f] = c1[i][f]

\* a session that appears holds the project, the project's group,
\* permissions and public flag, and the time of a caller at its session upsert
SessionInsertedBy(x) ==
    \E p \in Callers :
        /\ proc[p].pc = "session"
        /\ x.created = proc[p].t
        /\ x.project = db.projects[proc[p].project]._id
        /\ x.group = db.projects[proc[p].project].group
        /\ x.permissions = db.projects[proc[p].project].permissions
        /\ x.public = db.projects[proc[p].project].public

AcquisitionInsertedBy(x) ==
    \E p \in Callers :
        /\ proc[p].pc = "acquisition"
        /\ x.created = proc[p].t
        /\ x.session = db.sessions[proc[p].session]._id
        /\ x.permissions = db.sessions[proc[p].session].permissions
        /\ x.public = db.sessions[proc[p].session].public

WrittenOnce ==
    /\ KeepsFields(db.sessions, db'.sessions, SessionOnInsert)
    /\ KeepsFields(db.acquisitions, db'.acquisitions, AcquisitionOnInsert)
    /\ \A i \in DOMAIN db'.sessions \ DOMAIN db.sessions : SessionInsertedBy(db'.sessions[i])
    /\ \A i \in DOMAIN db'.acquisitions \ DOMAIN db.acquisitions :
          AcquisitionInsertedBy(db'.acquisitions[i])

\* C14: however the store accesses of concurrent create_container_hierarchy
\* calls for one session uid and acquisition uid interleave, there is one
\* session and one acquisition of that uid, and the fields under $setOnInsert
\* are those of the call whose upsert inserted the document: no later step
\* of any call changes them.
C14_SetOnInsertWrittenOnce ==
    /\ [](OnePerUid(db.sessions) /\ OnePerUid(db.acquisitions) /\ StoredWhenDone)
    /\ [][WrittenOnce]_vars

\* two calls that both found no session, for different projects, have returned
C14_Witness ==
    /\ \A p \in Callers : proc[p].pc = "done" /\ proc[p].session_obj = 0
    /\ proc["r1"].project # proc["r2"].project
    /\ Len(db.sessions) = 1
    /\ Len(db.acquisitions) = 1

-----------------------------------------------------------------------------
(* The project of a stored session (checked under SpecReconcile) *)

StoredSessions(uid) == {i \in DOMAIN db.sessions : db.sessions[i].uid = uid}

\* C15: a create_container_hierarchy call for a session uid that is stored
\* adds no project, and leaves the session's `project` and `group` as they
\* were, whatever group id and project label the call carries.
C15_ProjectIsSticky ==
    [][op' = "create_container_hierarchy" /\ ret' = 0
       /\ StoredSessions(arg'.session.uid) # {}
          => /\ Len(db'.projects) = Len(db.projects)
             /\ \A i \in StoredSessions(arg'.session.uid) :
                   /\ db'.sessions[i].project = db.sessions[i].project
                   /\ db'.sessions[i].group = db.sessions[i].group]_vars

\* a second upload of session s2 under a group name that resolves to
\* "unknown" returned, the session being in labA's project
C15_Witness ==
    /\ op = "create_container_hierarchy"
    /\ ret = 0
    /\ arg.group._id = Lab
    /\ Len(db.projects) = 1
    /\ \E x \in Range(db.sessions) :
          x.uid = arg.session.uid /\ x.group = LabA /\ x.modified > x.created

-----------------------------------------------------------------------------
(* Recovery of the migration engine (checked under SpecRecovery) *)

\* the last run entered at least two routines and the driver failed in the last
FailedAfterProgress ==
    /\ op = "upgrade_schema"
    /\ ret = 1
    /\ Len(calls) >= 2
    /\ arg.fault = calls[Len(calls)]

AtCurrentVersion ==
    /\ ret = 0
    /\ get_db_version(db) = IntV(CURRENT_DATABASE_VERSION)

\* C16: after a run that failed in some routine once earlier routines had
\* completed, and with the cause of the failure gone, re-running
\* upgrade_schema eventually exits 0 with the marker at the current version.
C16_RerunRecovers == FailedAfterProgress ~> AtCurrentVersion

-----------------------------------------------------------------------------
(* Properties of add_id_to_subject (checked under SpecSubject) *)

IdGiven(subject) == "_id" \in DOMAIN subject /\ subject._id.t # "null"

CodeGiven(subject) == "code" \in DOMAIN subject /\ subject.code # "None"

WithSubjectId == {x \in Range(db.sessions) : Has(x, "subject") /\ Has(x.subject, "_id")}

\* the sessions of project pid whose subject has the code and an _id
Candidates(code, pid) ==
    {x \in WithSubjectId :
        Has(x, "project") /\ x.project = pid /\ Has(x.subject, "code") /\ x.subject.code = code}

SubjectIdDecision ==
    op = "add_id_to_subject" =>
        IF IdGiven(arg.subject)
        THEN ret = (IF arg.subject._id = HexV(0) THEN -1 ELSE arg.subject._id.v)
        ELSE IF CodeGiven(arg.subject) /\ arg.pid # NoPid
                /\ Candidates(arg.subject.code, arg.pid) # {}
        THEN ret \in {x.subject._id : x \in Candidates(arg.subject.code, arg.pid)}
        ELSE ret # -1 /\ ret \notin {x.subject._id : x \in WithSubjectId}

\* C17: add_id_to_subject returns the subject with the _id it was given when
\* it was given one (a string that is no id being refused); otherwise, for a
\* code and a project, the _id of a session of that project whose subject has
\* the code and an _id when there is one; otherwise an _id no stored subject
\* has.  The call leaves the store as it was.
C17_SubjectIdIsKeptMatchedOrFresh ==
    /\ []SubjectIdDecision
    /\ [][op' = "add_id_to_subject" => db' = db]_vars

\* a subject with code c1 and no _id got the _id of the stored subject c1 of
\* project 10
C17_Witness ==
    /\ op = "add_id_to_subject"
    /\ ~IdGiven(arg.subject)
    /\ CodeGiven(arg.subject)
    /\ arg.pid = 10
    /\ Candidates(arg.subject.code, arg.pid) # {}
    /\ ret = 5

\* callers p and q have stored their sessions, for one project and one code
\* that no session held before, neither with an _id of its own
SameNewPair(p, q) ==
    /\ proc[p].pc = "stored" /\ proc[q].pc = "stored"
    /\ proc[p].pid = proc[q].pid /\ proc[p].pid # NoPid
    /\ ~IdGiven(proc[p].given) /\ ~IdGiven(proc[q].given)
    /\ CodeGiven(proc[p].given) /\ CodeGiven(proc[q].given)
    /\ proc[p].given.code = proc[q].given.code
    /\ \A x \in Candidates(proc[p].given.code, proc[p].pid) :
          x.uid \in {SessionOf[p], SessionOf[q]}

StoredSubjectId(p) ==
    (CHOOSE x \in Range(db.sessions) : x.uid = SessionOf[p]).subject._id

\* C18: two ingestions of different sessions with the same new (project,
\* code) pair, the second resolving its subject after the first stored its
\* session, end with one subject _id.  (The witness is the interleaving in
\* which both resolve before either stores: two distinct ids.)
C18_SequentialIngestionsShareSubjectId ==
    \A p, q \in Callers :
        SameNewPair(p, q) /\ p \in proc[q].after => StoredSubjectId(p) = StoredSubjectId(q)

C18_Witness ==
    /\ SameNewPair("r1", "r2")
    /\ proc["r1"].after = {} /\ proc["r2"].after = {}
    /\ StoredSubjectId("r1") # StoredSubjectId("r2")

\* some pair of ingestions did run one after the other
C18_SequentialWitness ==
    /\ SameNewPair("r1", "r2")
    /\ "r1" \in proc["r2"].after
    /\ StoredSubjectId("r1") = StoredSubjectId("r2")

-----------------------------------------------------------------------------
(* Subject ids after upgrade_to_4 (checked under Spec) *)

\* the last upgrade_schema run entered upgrade_to_4 and went past it
PassedUpgradeTo4 ==
    /\ op = "upgrade_schema"
    /\ \E i \in DOMAIN calls : calls[i] = 4 /\ (i < Len(calls) \/ ret = 0)

Coded(x) == Has(x, "subject") /\ Has(x.subject, "code")

\* C19: once upgrade_to_4 has completed, every session has a subject._id,
\* two sessions of one project with one subject code have one subject._id
\* (sessions that had a subject._id before included), and a session without
\* a subject code shares its subject._id with no other session.
C19_SubjectIdsAfterUpgradeTo4 ==
    PassedUpgradeTo4 =>
        /\ \A x \in Range(db.sessions) : Has(x, "subject") /\ Has(x.subject, "_id")
        /\ \A x, y \in Range(db.sessions) :
              Coded(x) /\ Coded(y) /\ x.project = y.project /\ x.subject.code = y.subject.code
                  => x.subject._id = y.subject._id
        /\ \A i, j \in DOMAIN db.sessions :
              ~Coded(db.sessions[i]) /\ i # j
                  => db.sessions[i].subject._id # db.sessions[j].subject._id

-----------------------------------------------------------------------------
(* Projects touched by concurrent uploads (checked under SpecConcurrent) *)

\* the project recorded on the stored session of uid
RecordedProject(uid) == (CHOOSE x \in Range(db.sessions) : x.uid = uid).project

\* C20: a create_container_hierarchy call that has returned has inserted, or
\* updated the timestamp and timezone of, no project but the one recorded on
\* the stored session of its session uid, however the calls interleave.
C20_OnlyTheSessionsProjectIsTouched ==
    \A p \in Callers :
        proc[p].pc = "done" =>
            proc[p].touched \subseteq {RecordedProject(proc[p].metadata.session.uid)}

-----------------------------------------------------------------------------
(* File entries are keyed by name (checked under SpecFiles) *)

Named(files, name) == {j \in DOMAIN files : "name" \in DOMAIN files[j] /\ files[j].name = name}

NoTwoFilesOfOneName ==
    \A x \in Range(db.acquisitions) :
        "files" \in DOMAIN x =>
            \A j, k \in DOMAIN x.files :
                "name" \in DOMAIN x.files[j] /\ "name" \in DOMAIN x.files[k]
                /\ x.files[j].name = x.files[k].name => j = k

FilesOf(d, i) == IF "files" \in DOMAIN d.acquisitions[i] THEN d.acquisitions[i].files ELSE <<>>

\* an update_file call that returned keeps the length of every file list,
\* keeps every entry that is not of the name it was called for, and keeps
\* the store when the handle's acquisition has no entry of that name
UpdateFileWritesTheNamedEntry ==
    op' = "update_file" /\ ret' = 0 =>
        /\ \A i \in DOMAIN db.acquisitions :
              /\ Len(FilesOf(db', i)) = Len(FilesOf(db, i))
              /\ \A j \in DOMAIN FilesOf(db, i) :
                    j \notin Named(FilesOf(db, i), arg'.fileinfo.filename)
                        => FilesOf(db', i)[j] = FilesOf(db, i)[j]
        /\ (\A i \in DOMAIN db.acquisitions :
              db.acquisitions[i]._id = proc[arg'.handle].acquisition._id
                  => Named(FilesOf(db, i), arg'.fileinfo.filename) = {})
           => db' = db

\* C21: after any sequence of add_file and update_file calls on handles of
\* an acquisition no two entries of its file list have one name; update_file
\* writes only the entry of the name it is called for, keeps the length of
\* the list, and leaves the store as it was when no entry has that name.
C21_FilesAreKeyedByName ==
    /\ []NoTwoFilesOfOneName
    /\ [][UpdateFileWritesTheNamedEntry]_vars

\* the part of C21 that is about update_file alone
C21_UpdateFileFrame == [][UpdateFileWritesTheNamedEntry]_vars

====
